---- MODULE Spec2Model ----
(***************************************************************************)
(* clipipe: temporary storage of byte payloads under short human-readable  *)
(* codes.  Two storage substrates are modelled:                            *)
(*   - DiskStorageBackend (src/server/storage_backend.py): two files per   *)
(*     code, <code>.dat and <code>.exp;                                    *)
(*   - the Redis-backed HTTP handlers (src/server/server.py): one key per  *)
(*     code, clipipe:<code>, with a native time-to-live.                   *)
(* Spec runs the calls one at a time; a deployment uses one backend.       *)
(* SpecConc runs the coroutines of DiskStorageBackend interleaved at their *)
(* awaits.  SpecGen runs the code generator alone.  SpecRace interleaves   *)
(* the store and retrieve calls of either substrate at one clock reading.  *)
(***************************************************************************)
EXTENDS Integers, Sequences, FiniteSets, TLC

VARIABLES backend, now, files, redis, call, last, issued, proc

vars == <<backend, now, files, redis, call, last, issued, proc>>

---------------------------------------------------------------------------
(* Bounds of the model *)

\* the clock runs from 0 to MaxTime
MaxTime == 2

\* the configured entry lifetime, in clock ticks
timeout_seconds == 1

\* interleaved runs: the candidates one store is followed through
MaxRetries == 1

\* interleaved runs: the calls made in all
MaxCalls == 3

(* Program constants *)

\* a loop bound off by one
max_attempts_off_by_one == 100 + 1

max_attempts == 100

---------------------------------------------------------------------------
(* Code generator *)

vowels == <<"a", "e", "i", "o", "u">>

consonants ==
  <<"b", "c", "d", "f", "g", "h", "j", "k", "l", "m", "n",
    "p", "q", "r", "s", "t", "v", "w", "x", "y", "z">>

Digits == <<"0", "1", "2", "3", "4", "5", "6", "7", "8", "9">>

\* str(n) for 0 <= n <= 99
str(n) == IF n < 10 THEN <<Digits[n + 1]>>
          ELSE <<Digits[(n \div 10) + 1], Digits[(n % 10) + 1]>>

\* zfill that pads nothing
zfill_unpadded(s, width) == s

RECURSIVE zfill(_, _)
zfill(s, width) == IF Len(s) >= width THEN s ELSE zfill(<<"0">> \o s, width)

\* letters[i] is the index secrets.choice drew at position i-1,
\* number is the value of secrets.randbelow(100)
generate_human_readable_code(letters, number) ==
  [i \in 1..6 |-> IF (i - 1) % 2 = 0 THEN consonants[letters[i]]
                  ELSE vowels[letters[i]]]
    \o zfill(str(number), 2)

\* secrets.randbelow(n): the values it can return
randbelow(n) == 0..(n - 1)

\* the alphabet secrets.choice draws from at position i-1 of the loop
alphabet(i) == IF (i - 1) % 2 = 0 THEN consonants ELSE vowels

\* the draws the generator runs enumerate: one draw (a letter, or the
\* number) takes every value it can, the other letters are the first of
\* their alphabets or the last, the number otherwise 0 or 99
GenDraws ==
  LET Corners == {"first", "last"}
      corner(b, i) == IF b = "first" THEN 1 ELSE Len(alphabet(i))
      OneLetter(free) ==
        { [letters |-> [i \in 1..6 |-> IF i = free THEN k ELSE corner(b, i)],
           number |-> n] :
            k \in 1..Len(alphabet(free)), b \in Corners,
            n \in {m \in randbelow(100) : m = 0 \/ m + 1 \notin randbelow(100)} }
      TheNumber ==
        { [letters |-> [i \in 1..6 |-> corner(b, i)], number |-> n] :
            b \in Corners, n \in randbelow(100) }
  IN UNION { OneLetter(free) : free \in 1..6 } \cup TheNumber

\* the draws of the random source the storage runs enumerate
Draws == { [letters |-> <<1, 1, 1, 1, 1, 1>>, number |-> n] : n \in {7, 42} }

Codes == { generate_human_readable_code(d.letters, d.number) : d \in Draws }

\* payloads: b"", b"h", b"w"
Payloads == { <<>>, <<104>>, <<119>> }

\* the payloads of the interleaved runs
ConcPayloads == Payloads \ { <<>> }

---------------------------------------------------------------------------
(* Timestamps as text *)

\* datetime.isoformat(): the instant as fixed-width decimal text
isoformat(t) == <<Digits[(t \div 10) + 1], Digits[(t % 10) + 1]>>

IsDigit(ch) == \E d \in 1..10 : Digits[d] = ch

DigitValue(ch) == (CHOOSE d \in 1..10 : Digits[d] = ch) - 1

IsSpace(ch) == ch \in {" ", "\n", "\t"}

RECURSIVE lstrip(_)
lstrip(s) == IF s # <<>> /\ IsSpace(Head(s)) THEN lstrip(Tail(s)) ELSE s

RECURSIVE rstrip(_)
rstrip(s) == IF s # <<>> /\ IsSpace(s[Len(s)])
             THEN rstrip(SubSeq(s, 1, Len(s) - 1)) ELSE s

strip(s) == rstrip(lstrip(s))

\* datetime.fromisoformat(): ok = FALSE stands for ValueError
fromisoformat(s) ==
  IF Len(s) = 2 /\ IsDigit(s[1]) /\ IsDigit(s[2])
  THEN [ok |-> TRUE, value |-> 10 * DigitValue(s[1]) + DigitValue(s[2])]
  ELSE [ok |-> FALSE, value |-> 0]

---------------------------------------------------------------------------
(* The storage directory: a function from the paths that exist to their    *)
(* contents.                                                               *)

DATA_FILE_EXT == ".dat"

EXPIRATION_FILE_EXT == ".exp"

data_file(code) == Append(code, DATA_FILE_EXT)

expiration_file(code) == Append(code, EXPIRATION_FILE_EXT)

NoFiles == [p \in {} |-> <<>>]

path_exists(fs, path) == path \in DOMAIN fs

\* open(path, "w"/"wb"), write, close
write_file(fs, path, content) ==
  [p \in DOMAIN fs \cup {path} |-> IF p = path THEN content ELSE fs[p]]

\* os.remove of a path that exists
remove(fs, path) == [p \in DOMAIN fs \ {path} |-> fs[p]]

NoExc == "none"

\* a delete_data that forgets the expiry record
delete_data_keeps_expiry(fs, code) ==
  IF ~path_exists(fs, data_file(code))
  THEN [fs |-> fs, exc |-> "FileNotFoundError"]
  ELSE [fs |-> remove(fs, data_file(code)), exc |-> NoExc]

\* delete_data: two removes in a row, each raising when its file is missing
delete_data(fs, code) ==
  IF ~path_exists(fs, data_file(code))
  THEN [fs |-> fs, exc |-> "FileNotFoundError"]
  ELSE LET f1 == remove(fs, data_file(code)) IN
       IF ~path_exists(f1, expiration_file(code))
       THEN [fs |-> f1, exc |-> "FileNotFoundError"]
       ELSE [fs |-> remove(f1, expiration_file(code)), exc |-> NoExc]

\* an _exists that does not compare the expiry instant with the clock
exists_ignores_clock(fs, code, t) ==
  IF ~path_exists(fs, expiration_file(code))
  THEN [fs |-> fs, ret |-> FALSE, exc |-> NoExc]
  ELSE IF ~fromisoformat(strip(fs[expiration_file(code)])).ok
  THEN [fs |-> fs, ret |-> FALSE, exc |-> "ValueError"]
  ELSE [fs |-> fs, ret |-> TRUE, exc |-> NoExc]

\* _exists at clock reading t
exists(fs, code, t) ==
  IF ~path_exists(fs, expiration_file(code))
  THEN [fs |-> fs, ret |-> FALSE, exc |-> NoExc]
  ELSE LET expiration_time == fromisoformat(strip(fs[expiration_file(code)])) IN
       IF ~expiration_time.ok
       THEN [fs |-> fs, ret |-> FALSE, exc |-> "ValueError"]
       ELSE IF expiration_time.value < t
       THEN LET d == delete_data(fs, code) IN
            [fs |-> d.fs, ret |-> FALSE, exc |-> d.exc]
       ELSE [fs |-> fs, ret |-> TRUE, exc |-> NoExc]

\* retrieve_data at clock reading t; found = FALSE stands for None
retrieve_data(fs, code, t) ==
  LET e == exists(fs, code, t) IN
  IF e.exc # NoExc
  THEN [fs |-> e.fs, found |-> FALSE, data |-> <<>>, exc |-> e.exc]
  ELSE IF ~e.ret
  THEN [fs |-> e.fs, found |-> FALSE, data |-> <<>>, exc |-> NoExc]
  ELSE IF ~path_exists(e.fs, data_file(code))
  THEN [fs |-> e.fs, found |-> FALSE, data |-> <<>>, exc |-> "FileNotFoundError"]
  ELSE [fs |-> e.fs, found |-> TRUE, data |-> e.fs[data_file(code)], exc |-> NoExc]

\* a loop that returns its candidate whatever the existence check answers
ensure_unique_code_step_unchecked(fs, code, t) ==
  LET e == exists(fs, code, t) IN
  [fs |-> e.fs,
   exc |-> e.exc,
   next |-> IF e.exc # NoExc THEN "raise" ELSE "return"]

\* one turn of the loop of _ensure_unique_code on candidate code
ensure_unique_code_step(fs, code, t) ==
  LET e == exists(fs, code, t) IN
  [fs |-> e.fs,
   exc |-> e.exc,
   next |-> IF e.exc # NoExc THEN "raise"
            ELSE IF ~e.ret THEN "return" ELSE "continue"]

\* a store_data that writes the current instant as the expiry
store_write_without_timeout(fs, code, data, t) ==
  [fs |-> write_file(write_file(fs, data_file(code), data),
                     expiration_file(code), isoformat(t)),
   expiration_time |-> t]

\* a store_data that writes the data record and no expiry record
store_write_data_only(fs, code, data, t) ==
  [fs |-> write_file(fs, data_file(code), data),
   expiration_time |-> t + timeout_seconds]

\* store_data after the code is chosen, at clock reading t
store_write(fs, code, data, t) ==
  LET expiration_time == t + timeout_seconds IN
  [fs |-> write_file(write_file(fs, data_file(code), data),
                     expiration_file(code), isoformat(expiration_time)),
   expiration_time |-> expiration_time]

---------------------------------------------------------------------------
(* The Redis database: a function from the keys that exist to their value  *)
(* and the instant their time-to-live runs out.                            *)

TIMEOUT_SECONDS == timeout_seconds

NoKeys == [k \in {} |-> [value |-> <<>>, expire_at |-> 0]]

redis_key(code) == <<"clipipe:">> \o code

\* a key is gone from the instant its time-to-live has run out
redis_visible(db, key, t) == key \in DOMAIN db /\ db[key].expire_at > t

redis_exists(db, key, t) == redis_visible(db, key, t)

\* found = FALSE stands for None
redis_get(db, key, t) ==
  IF redis_visible(db, key, t)
  THEN [found |-> TRUE, value |-> db[key].value]
  ELSE [found |-> FALSE, value |-> <<>>]

\* a SETEX that leaves a key that is set as it is
redis_setex_keeps_first(db, key, seconds, value, t) ==
  [k \in DOMAIN db \cup {key} |->
     IF k = key /\ ~redis_visible(db, key, t)
     THEN [value |-> value, expire_at |-> t + seconds] ELSE db[k]]

redis_setex(db, key, seconds, value, t) ==
  [k \in DOMAIN db \cup {key} |->
     IF k = key THEN [value |-> value, expire_at |-> t + seconds] ELSE db[k]]

\* the keys Redis has evicted by instant t
redis_evict(db, t) == [k \in {j \in DOMAIN db : db[j].expire_at > t} |-> db[k]]

\* one turn of the loop of ensure_unique_code on candidate code
http_unique_code_step(db, code, t) ==
  IF ~redis_exists(db, redis_key(code), t) THEN "return" ELSE "continue"

\* what is raised inside the try block of a handler
NoRaise == [kind |-> "none", status_code |-> 0]

\* HTTPException derives from Exception and not from redis.RedisError
IsException(kind) == kind \in {"HTTPException", "RedisError"}

\* the except clauses of store_data and retrieve_data, in their order:
\* the status of the response the caller receives
except_clauses(raised) ==
  IF raised.kind = "RedisError" THEN 500
  ELSE IF IsException(raised.kind) THEN 500
  ELSE 200

---------------------------------------------------------------------------
(* Calls run one at a time: call is the store in progress, last the call  *)
(* that completed most recently (none once a store is entered; allLive:   *)
(* every candidate the loop passed over was a live entry), issued         *)
(* the entry each code was last handed out with: live with its payload    *)
(* and expiry instant, then expired (the clock has passed that instant)   *)
(* or deleted.                                                            *)

Idle == [pc |-> "idle", data |-> <<>>, attempt |-> 0, code |-> <<>>,
         snapFiles |-> NoFiles, snapRedis |-> NoKeys, allLive |-> TRUE]

NoLast == [op |-> "none", code |-> <<>>, data |-> <<>>, found |-> FALSE,
           exc |-> NoExc, raised |-> NoRaise, status |-> 0, at |-> 0,
           attempts |-> 0, claimedLive |-> FALSE, intact |-> TRUE,
           allLive |-> TRUE,
           known |-> FALSE, entry |-> [state |-> "never", payload |-> <<>>,
                                       expires_at |-> 0]]

NoIssued == [c \in {} |-> NoLast.entry]

Gone(state) == [state |-> state, payload |-> <<>>, expires_at |-> 0]

Issue(code, payload, expires_at) ==
  [c \in DOMAIN issued \cup {code} |->
     IF c = code
     THEN [state |-> "live", payload |-> payload, expires_at |-> expires_at]
     ELSE issued[c]]

\* what the completed call on code knew of it
About(code) ==
  IF code \in DOMAIN issued
  THEN [known |-> TRUE, entry |-> issued[code]]
  ELSE [known |-> FALSE, entry |-> NoLast.entry]

\* an entry on disk that has not expired at instant t: both records, and
\* an expiry record holding an instant that t has not passed
LiveOnDisk(fs, code, t) ==
  /\ data_file(code) \in DOMAIN fs
  /\ expiration_file(code) \in DOMAIN fs
  /\ \E e \in t..(MaxTime + timeout_seconds) :
       fs[expiration_file(code)] = isoformat(e)

\* an entry in Redis whose time-to-live has not run out at instant t
LiveInRedis(db, code, t) ==
  /\ redis_key(code) \in DOMAIN db
  /\ db[redis_key(code)].expire_at > t

\* db is snap but for the keys whose time-to-live has run out by instant t:
\* nothing was written or removed by a call
Unwritten(db, snap, t) ==
  /\ \A k \in DOMAIN db : k \in DOMAIN snap /\ db[k] = snap[k]
  /\ \A k \in DOMAIN snap : snap[k].expire_at > t => k \in DOMAIN db

\* the coroutines of the interleaved runs
Procs == {"p1", "p2"}

\* a coroutine: where it stands (pc), the call it serves (op), its locals,
\* whether the file it holds open is still linked under its path (attached),
\* how the call ended (exc, found, out; corrupt: it met an expiry record
\* that does not parse), the calls it has served, and what its caller holds
\* from the last store that returned: the code (got) and the payload (put)
IdleProc == [pc |-> "idle", op |-> "none", code |-> <<>>, data |-> <<>>,
             attempt |-> 0, text |-> <<>>, expiry |-> 0, attached |-> FALSE,
             exc |-> NoExc, found |-> FALSE, out |-> <<>>, corrupt |-> FALSE,
             calls |-> 0, got |-> <<>>, put |-> <<>>]

Init ==
  /\ proc = [p \in Procs |-> IdleProc]
  /\ backend \in {"disk", "redis"}
  /\ now = 0
  /\ files = NoFiles
  /\ redis = NoKeys
  /\ call = Idle
  /\ last = NoLast
  /\ issued = NoIssued

\* the clock advances; Redis evicts the keys whose time-to-live has run out
Tick ==
  /\ now < MaxTime
  /\ now' = now + 1
  /\ redis' = redis_evict(redis, now + 1)
  /\ issued' = [c \in DOMAIN issued |->
                  IF issued[c].state = "live" /\ issued[c].expires_at < now + 1
                  THEN Gone("expired") ELSE issued[c]]
  /\ UNCHANGED <<proc, backend, files, call, last>>

(* DiskStorageBackend *)

\* store_data is entered
StoreData(data) ==
  /\ backend = "disk"
  /\ call.pc = "idle"
  /\ call' = [Idle EXCEPT !.pc = "loop", !.data = data, !.snapFiles = files]
  /\ last' = NoLast
  /\ UNCHANGED <<proc, backend, now, files, redis, issued>>

\* _ensure_unique_code: one candidate is generated and checked
StoreAttempt ==
  /\ backend = "disk"
  /\ call.pc = "loop"
  /\ call.attempt < max_attempts
  /\ \E d \in Draws :
       LET code == generate_human_readable_code(d.letters, d.number)
           s == ensure_unique_code_step(files, code, now)
       IN /\ files' = s.fs
          /\ CASE s.next = "raise" ->
                    /\ call' = Idle
                    /\ last' = [NoLast EXCEPT !.op = "store", !.code = code,
                                  !.data = call.data, !.exc = s.exc, !.at = now,
                                  !.intact = (s.fs = call.snapFiles)]
               [] s.next = "return" ->
                    /\ call' = [call EXCEPT !.pc = "write", !.code = code,
                                  !.attempt = call.attempt + 1]
                    /\ last' = last
               [] s.next = "continue" ->
                    /\ call' = [call EXCEPT !.attempt = call.attempt + 1,
                                  !.allLive = call.allLive
                                              /\ LiveOnDisk(files, code, now)]
                    /\ last' = last
  /\ UNCHANGED <<proc, backend, now, redis, issued>>

\* _ensure_unique_code: the attempts are used up
StoreExhausted ==
  /\ backend = "disk"
  /\ call.pc = "loop"
  /\ call.attempt >= max_attempts
  /\ call' = Idle
  /\ last' = [NoLast EXCEPT !.op = "store", !.data = call.data,
                !.exc = "Exception", !.at = now, !.attempts = call.attempt,
                !.intact = (files = call.snapFiles), !.allLive = call.allLive]
  /\ UNCHANGED <<proc, backend, now, files, redis, issued>>

\* store_data: both records are written and the code is returned
StoreWrite ==
  /\ backend = "disk"
  /\ call.pc = "write"
  /\ LET w == store_write(files, call.code, call.data, now) IN
       /\ files' = w.fs
       /\ issued' = Issue(call.code, call.data, now + timeout_seconds)
       /\ last' = [NoLast EXCEPT !.op = "store", !.code = call.code,
                     !.data = call.data, !.found = TRUE, !.at = now,
                     !.claimedLive = LiveOnDisk(files, call.code, now),
                     !.intact = (files = call.snapFiles),
                     !.known = About(call.code).known,
                     !.entry = About(call.code).entry]
  /\ call' = Idle
  /\ UNCHANGED <<proc, backend, now, redis>>

Retrieve(code) ==
  /\ backend = "disk"
  /\ call.pc = "idle"
  /\ LET r == retrieve_data(files, code, now) IN
       /\ files' = r.fs
       /\ last' = [NoLast EXCEPT !.op = "retrieve", !.code = code,
                     !.data = r.data, !.found = r.found, !.exc = r.exc,
                     !.at = now, !.known = About(code).known,
                     !.entry = About(code).entry]
  /\ UNCHANGED <<proc, backend, now, redis, call, issued>>

Delete(code) ==
  /\ backend = "disk"
  /\ call.pc = "idle"
  /\ LET d == delete_data(files, code) IN
       /\ files' = d.fs
       /\ last' = [NoLast EXCEPT !.op = "delete", !.code = code, !.exc = d.exc,
                     !.at = now, !.known = About(code).known,
                     !.entry = About(code).entry]
       /\ issued' = IF d.exc = NoExc /\ code \in DOMAIN issued
                    THEN [issued EXCEPT ![code] = Gone("deleted")]
                    ELSE issued
  /\ UNCHANGED <<proc, backend, now, redis, call>>

(* The HTTP handlers over Redis *)

\* the response to a request that ended with raised inside the try block
Respond(op, code, data, found, raised, attempts, intact) ==
  [NoLast EXCEPT !.op = op, !.code = code, !.data = data, !.found = found,
     !.raised = raised, !.status = except_clauses(raised), !.at = now,
     !.attempts = attempts, !.intact = intact,
     !.known = About(code).known, !.entry = About(code).entry]

\* POST /store is entered with the request body
HttpStoreData(body) ==
  /\ backend = "redis"
  /\ call.pc = "idle"
  /\ IF body = <<>>
     THEN /\ last' = Respond("POST", <<>>, body, FALSE,
                       [kind |-> "HTTPException", status_code |-> 400], 0, TRUE)
          /\ call' = call
     ELSE /\ call' = [Idle EXCEPT !.pc = "loop", !.data = body, !.snapRedis = redis]
          /\ last' = NoLast
  /\ UNCHANGED <<proc, backend, now, files, redis, issued>>

\* ensure_unique_code: one candidate is generated and checked; up = FALSE
\* is a Redis that cannot be reached
HttpStoreAttempt ==
  /\ backend = "redis"
  /\ call.pc = "loop"
  /\ call.attempt < max_attempts
  /\ \E d \in Draws, up \in BOOLEAN :
       LET code == generate_human_readable_code(d.letters, d.number) IN
       IF ~up
       THEN /\ call' = Idle
            /\ last' = Respond("POST", code, call.data, FALSE,
                         [kind |-> "RedisError", status_code |-> 0],
                         0, Unwritten(redis, call.snapRedis, now))
       ELSE /\ last' = last
            /\ call' = IF http_unique_code_step(redis, code, now) = "return"
                       THEN [call EXCEPT !.pc = "write", !.code = code,
                               !.attempt = call.attempt + 1]
                       ELSE [call EXCEPT !.attempt = call.attempt + 1,
                               !.allLive = call.allLive
                                           /\ LiveInRedis(redis, code, now)]
  /\ UNCHANGED <<proc, backend, now, files, redis, issued>>

\* ensure_unique_code: the attempts are used up
HttpStoreExhausted ==
  /\ backend = "redis"
  /\ call.pc = "loop"
  /\ call.attempt >= max_attempts
  /\ call' = Idle
  /\ last' = [Respond("POST", <<>>, call.data, FALSE,
                        [kind |-> "HTTPException", status_code |-> 500],
                        call.attempt, Unwritten(redis, call.snapRedis, now))
                  EXCEPT !.allLive = call.allLive]
  /\ UNCHANGED <<proc, backend, now, files, redis, issued>>

\* store_data: SETEX, then the code is returned
HttpStoreSetex ==
  /\ backend = "redis"
  /\ call.pc = "write"
  /\ \E up \in BOOLEAN :
       IF ~up
       THEN /\ last' = Respond("POST", call.code, call.data, FALSE,
                         [kind |-> "RedisError", status_code |-> 0],
                         0, Unwritten(redis, call.snapRedis, now))
            /\ UNCHANGED <<redis, issued>>
       ELSE /\ redis' = redis_setex(redis, redis_key(call.code), TIMEOUT_SECONDS,
                                    call.data, now)
            /\ issued' = Issue(call.code, call.data, now + TIMEOUT_SECONDS)
            /\ last' = [Respond("POST", call.code, call.data, TRUE, NoRaise,
                                0, Unwritten(redis, call.snapRedis, now))
                          EXCEPT !.claimedLive = LiveInRedis(redis, call.code, now)]
  /\ call' = Idle
  /\ UNCHANGED <<proc, backend, now, files>>

\* GET /retrieve/{code}
HttpRetrieveData(code) ==
  /\ backend = "redis"
  /\ call.pc = "idle"
  /\ \E up \in BOOLEAN :
       LET g == redis_get(redis, redis_key(code), now) IN
       last' = IF ~up
               THEN Respond("GET", code, <<>>, FALSE,
                      [kind |-> "RedisError", status_code |-> 0], 0, TRUE)
               ELSE IF ~g.found
               THEN Respond("GET", code, <<>>, FALSE,
                      [kind |-> "HTTPException", status_code |-> 404], 0, TRUE)
               ELSE Respond("GET", code, g.value, TRUE, NoRaise, 0, TRUE)
  /\ UNCHANGED <<proc, backend, now, files, redis, call, issued>>

Next ==
  \/ Tick
  \/ \E data \in Payloads : StoreData(data)
  \/ StoreAttempt
  \/ StoreExhausted
  \/ StoreWrite
  \/ \E code \in Codes : Retrieve(code)
  \/ \E code \in Codes : Delete(code)
  \/ \E body \in Payloads : HttpStoreData(body)
  \/ HttpStoreAttempt
  \/ HttpStoreExhausted
  \/ HttpStoreSetex
  \/ \E code \in Codes : HttpRetrieveData(code)

Spec == Init /\ [][Next]_vars

---------------------------------------------------------------------------
(* Properties *)

\* entry e is live at instant t: handed out, not deleted, and t has not passed
\* its expiry instant (in Redis: has not reached it)
LiveAt(e, t) ==
  e.state = "live" /\ (backend = "redis" => t < e.expires_at)

\* the entry code was handed out with is still stored as it was handed out
Intact(c) ==
  LiveAt(issued[c], now)
  => IF backend = "disk"
     THEN /\ data_file(c) \in DOMAIN files
          /\ files[data_file(c)] = issued[c].payload
          /\ expiration_file(c) \in DOMAIN files
          /\ files[expiration_file(c)] = isoformat(issued[c].expires_at)
     ELSE /\ redis_key(c) \in DOMAIN redis
          /\ redis[redis_key(c)].value = issued[c].payload
          /\ redis[redis_key(c)].expire_at = issued[c].expires_at

BackendDown == last.raised.kind = "RedisError"

\* C1 (round trip): a retrieve of a code that store returned, made before the
\* entry's expiry instant and before any delete of it, returns exactly the
\* stored payload, and the entry is still stored unchanged afterwards (so every
\* further retrieve returns it too). Calls run one at a time.
C1_RoundTrip ==
  /\ (last.op = "retrieve" /\ last.entry.state = "live"
        /\ last.at < last.entry.expires_at)
     => /\ last.exc = NoExc
        /\ last.found
        /\ last.data = last.entry.payload
        /\ Intact(last.code)
  /\ (last.op = "GET" /\ last.entry.state = "live"
        /\ last.at < last.entry.expires_at /\ ~BackendDown)
     => /\ last.raised = NoRaise
        /\ last.status = 200
        /\ last.found
        /\ last.data = last.entry.payload
        /\ Intact(last.code)

C1_Witness ==
  /\ last.op = "retrieve"
  /\ last.entry.state = "live"
  /\ last.at < last.entry.expires_at
  /\ last.at > 0
  /\ last.found
  /\ last.data = <<119>>

C3_DeleteNeverRaises ==
  last.op = "delete"
  => /\ last.exc = NoExc
     /\ data_file(last.code) \notin DOMAIN files
     /\ expiration_file(last.code) \notin DOMAIN files

\* C5 (uniqueness protocol): with stores run one at a time, the code a store
\* returns was not a live entry when it was claimed, and every entry handed
\* out and still live is stored exactly as it was handed out (no store has
\* overwritten its payload or expiry).
C5_UniqueCodes ==
  /\ (last.op \in {"store", "POST"} /\ last.found)
     => (~last.claimedLive /\ ~LiveAt(last.entry, last.at))
  /\ \A c \in DOMAIN issued : Intact(c)

\* a code whose entry had expired is handed out again, beside a live entry
C5_Witness ==
  /\ last.op = "store"
  /\ last.found
  /\ last.entry.state = "expired"
  /\ \E c \in DOMAIN issued : c # last.code /\ issued[c].state = "live"

\* C6 (bounded allocation): a store checks at most 100 candidates; it fails
\* with the allocation error only after exactly 100 candidates that were all
\* live entries, and then has written nothing (storage is as it was when the
\* call was entered); a candidate that is absent ends the loop and is the code
\* the store writes.
C6_BoundedAllocation ==
  /\ call.attempt <= 100
  /\ (last.op = "store" /\ last.exc = "Exception")
     => (last.attempts = 100 /\ last.allLive /\ last.intact /\ ~last.found)
  /\ (last.op = "POST" /\ last.raised.kind = "HTTPException"
        /\ last.raised.status_code = 500)
     => /\ last.attempts = 100
        /\ last.allLive
        /\ last.intact
        /\ ~last.found
        /\ last.status = 500
  /\ call.pc = "write"
     => /\ call.allLive
        /\ IF backend = "disk"
           THEN ~LiveOnDisk(files, call.code, now)
           ELSE ~LiveInRedis(redis, call.code, now)

C6_Witness ==
  /\ last.op = "store"
  /\ last.exc = "Exception"
  /\ last.attempts = 100
  /\ files # NoFiles

\* C7 (empty-payload rejection), as claimed: for a store of an empty payload
\* no candidate code is generated or checked, no code is returned, and
\* nothing is written.
C7_EmptyRejected ==
  /\ (call.pc # "idle" /\ call.data = <<>>)
     => (call.pc = "loop" /\ call.attempt = 0)
  /\ (last.op \in {"store", "POST"} /\ last.data = <<>>)
     => (~last.found /\ last.attempts = 0 /\ last.intact)

\* C8 (GET of an unknown or expired code), as claimed: when the fetch succeeds
\* and finds no value the response is 404-class, and when it finds a value the
\* response is the payload.
C8_NotFoundIs404 ==
  (last.op = "GET" /\ ~BackendDown)
  => IF last.found THEN last.status = 200
     ELSE last.status \in 400..499

\* C9 (POST with an empty body), as claimed: the response is 400-class.
C9_EmptyBodyIs400 ==
  (last.op = "POST" /\ last.data = <<>>) => last.status \in 400..499

\* C10 (delete then retrieve): a retrieve of a code whose entry was deleted
\* (and not reissued) returns None without raising, the same outcome as for a
\* code that was never handed out.
C10_DeleteThenRetrieve ==
  (last.op = "retrieve" /\ last.entry.state \in {"deleted", "never"})
  => (last.exc = NoExc /\ ~last.found /\ last.data = <<>>)

C10_Witness ==
  /\ last.op = "retrieve"
  /\ last.entry.state = "deleted"
  /\ ~last.found
  /\ \E c \in DOMAIN issued : issued[c].state = "live"

---------------------------------------------------------------------------
(* DiskStorageBackend, its coroutines interleaved: one action per await.   *)

InitConc ==
  /\ proc = [p \in Procs |-> IdleProc]
  /\ backend = "disk"
  /\ now = 0
  /\ files = NoFiles
  /\ redis = NoKeys
  /\ call = Idle
  /\ last = NoLast
  /\ issued = NoIssued

RECURSIVE CallsOf(_)
CallsOf(ps) == IF ps = {} THEN 0
               ELSE LET q == CHOOSE q \in ps : TRUE
                    IN proc[q].calls + CallsOf(ps \ {q})

\* p can take a call
Ready(p) == proc[p].pc \in {"idle", "done"} /\ CallsOf(Procs) < MaxCalls

\* the call of p ends: it raises exc, or returns (found = FALSE: None)
Done(p, exc, found, out) ==
  [IdleProc EXCEPT !.pc = "done", !.op = proc[p].op, !.code = proc[p].code,
     !.exc = exc, !.found = found, !.out = out,
     !.corrupt = proc[p].corrupt, !.calls = proc[p].calls,
     !.got = proc[p].got, !.put = proc[p].put]

\* _exists returns ret to its caller: the loop of _ensure_unique_code, or
\* retrieve_data
ExistsReturns(p, ret) ==
  IF proc[p].op = "store"
  THEN [proc[p] EXCEPT !.pc = IF ret THEN "generate" ELSE "open_data",
          !.text = <<>>, !.expiry = 0, !.attached = FALSE]
  ELSE IF ret
  THEN [proc[p] EXCEPT !.pc = "open_read", !.text = <<>>, !.expiry = 0,
          !.attached = FALSE]
  ELSE Done(p, NoExc, FALSE, <<>>)

\* the path p holds an open file of
Holds(q, path) ==
  \/ proc[q].pc \in {"read_expiration", "write_expiration"}
       /\ path = expiration_file(proc[q].code)
  \/ proc[q].pc \in {"read_data", "write_data"}
       /\ path = data_file(proc[q].code)

\* a write at offset 0 of a file holding content
write_at_start(content, data) ==
  data \o SubSeq(content, Len(data) + 1, Len(content))

\* os.remove of path by p: the coroutines holding it open keep the unlinked
\* file, with the content it has
Unlink(p, path, next) ==
  [q \in Procs |->
     IF q = p THEN next
     ELSE IF Holds(q, path) /\ proc[q].attached
     THEN [proc[q] EXCEPT !.attached = FALSE, !.text = files[path]]
     ELSE proc[q]]

CallStore(p, data) ==
  /\ backend = "disk"
  /\ Ready(p)
  /\ proc' = [proc EXCEPT ![p] = [IdleProc EXCEPT !.pc = "generate",
                                    !.op = "store", !.data = data,
                                    !.calls = proc[p].calls + 1,
                                    !.got = proc[p].got, !.put = proc[p].put]]
  /\ UNCHANGED <<backend, now, files, redis, call, last, issued>>

CallRetrieve(p, code) ==
  /\ backend = "disk"
  /\ Ready(p)
  /\ proc' = [proc EXCEPT ![p] = [IdleProc EXCEPT !.pc = "exists",
                                    !.op = "retrieve", !.code = code,
                                    !.calls = proc[p].calls + 1,
                                    !.got = proc[p].got, !.put = proc[p].put]]
  /\ UNCHANGED <<backend, now, files, redis, call, last, issued>>

CallDelete(p, code) ==
  /\ backend = "disk"
  /\ Ready(p)
  /\ proc' = [proc EXCEPT ![p] = [IdleProc EXCEPT !.pc = "remove_data",
                                    !.op = "delete", !.code = code,
                                    !.calls = proc[p].calls + 1,
                                    !.got = proc[p].got, !.put = proc[p].put]]
  /\ UNCHANGED <<backend, now, files, redis, call, last, issued>>

\* _ensure_unique_code: the next candidate, or the attempts are used up
Generate(p) ==
  /\ proc[p].pc = "generate"
  /\ proc[p].attempt < MaxRetries
  /\ IF proc[p].attempt >= max_attempts
     THEN proc' = [proc EXCEPT ![p] = Done(p, "Exception", FALSE, <<>>)]
     ELSE \E d \in Draws :
            proc' = [proc EXCEPT ![p] =
                       [proc[p] EXCEPT !.pc = "exists",
                          !.code = generate_human_readable_code(d.letters, d.number),
                          !.attempt = proc[p].attempt + 1]]
  /\ UNCHANGED <<backend, now, files, redis, call, last, issued>>

\* _exists: await aio_os.path.exists(expiration_file)
ExistsCheck(p) ==
  /\ proc[p].pc = "exists"
  /\ proc' = [proc EXCEPT ![p] =
                IF path_exists(files, expiration_file(proc[p].code))
                THEN [proc[p] EXCEPT !.pc = "open_expiration"]
                ELSE ExistsReturns(p, FALSE)]
  /\ UNCHANGED <<backend, now, files, redis, call, last, issued>>

\* _exists: aiofiles.open(expiration_file, mode="r")
OpenExpiration(p) ==
  /\ proc[p].pc = "open_expiration"
  /\ proc' = [proc EXCEPT ![p] =
                IF path_exists(files, expiration_file(proc[p].code))
                THEN [proc[p] EXCEPT !.pc = "read_expiration", !.attached = TRUE]
                ELSE Done(p, "FileNotFoundError", FALSE, <<>>)]
  /\ UNCHANGED <<backend, now, files, redis, call, last, issued>>

\* _exists: await f.read(), then datetime.fromisoformat(expiration.strip())
ReadExpiration(p) ==
  /\ proc[p].pc = "read_expiration"
  /\ LET expiration == IF proc[p].attached
                       THEN files[expiration_file(proc[p].code)]
                       ELSE proc[p].text
         expiration_time == fromisoformat(strip(expiration))
     IN proc' = [proc EXCEPT ![p] =
                   IF expiration_time.ok
                   THEN [proc[p] EXCEPT !.pc = "compare", !.text = <<>>,
                           !.attached = FALSE,
                           !.expiry = expiration_time.value]
                   ELSE [Done(p, "ValueError", FALSE, <<>>)
                           EXCEPT !.corrupt = TRUE]]
  /\ UNCHANGED <<backend, now, files, redis, call, last, issued>>

\* _exists: if expiration_time < datetime.now()
Compare(p) ==
  /\ proc[p].pc = "compare"
  /\ proc' = [proc EXCEPT ![p] =
                IF proc[p].expiry < now
                THEN [proc[p] EXCEPT !.pc = "remove_data", !.expiry = 0]
                ELSE ExistsReturns(p, TRUE)]
  /\ UNCHANGED <<backend, now, files, redis, call, last, issued>>

\* delete_data: await aio_os.remove(data_file)
RemoveData(p) ==
  /\ proc[p].pc = "remove_data"
  /\ LET path == data_file(proc[p].code) IN
     IF path_exists(files, path)
     THEN /\ files' = remove(files, path)
          /\ proc' = Unlink(p, path, [proc[p] EXCEPT !.pc = "remove_expiration"])
     ELSE /\ files' = files
          /\ proc' = [proc EXCEPT ![p] = Done(p, "FileNotFoundError", FALSE, <<>>)]
  /\ UNCHANGED <<backend, now, redis, call, last, issued>>

\* delete_data: await aio_os.remove(expiration_file); called from _exists,
\* _exists then returns False
RemoveExpiration(p) ==
  /\ proc[p].pc = "remove_expiration"
  /\ LET path == expiration_file(proc[p].code) IN
     IF path_exists(files, path)
     THEN /\ files' = remove(files, path)
          /\ proc' = Unlink(p, path,
                            IF proc[p].op = "delete"
                            THEN Done(p, NoExc, FALSE, <<>>)
                            ELSE ExistsReturns(p, FALSE))
     ELSE /\ files' = files
          /\ proc' = [proc EXCEPT ![p] = Done(p, "FileNotFoundError", FALSE, <<>>)]
  /\ UNCHANGED <<backend, now, redis, call, last, issued>>

\* retrieve_data: aiofiles.open(data_file, mode="rb")
OpenRead(p) ==
  /\ proc[p].pc = "open_read"
  /\ proc' = [proc EXCEPT ![p] =
                IF path_exists(files, data_file(proc[p].code))
                THEN [proc[p] EXCEPT !.pc = "read_data", !.attached = TRUE]
                ELSE Done(p, "FileNotFoundError", FALSE, <<>>)]
  /\ UNCHANGED <<backend, now, files, redis, call, last, issued>>

\* retrieve_data: return await f.read()
ReadData(p) ==
  /\ proc[p].pc = "read_data"
  /\ proc' = [proc EXCEPT ![p] =
                Done(p, NoExc, TRUE,
                     IF proc[p].attached THEN files[data_file(proc[p].code)]
                     ELSE proc[p].text)]
  /\ UNCHANGED <<backend, now, files, redis, call, last, issued>>

\* store_data: expiration_time is computed, the data file is opened "wb"
\* (created, or emptied)
OpenData(p) ==
  /\ proc[p].pc = "open_data"
  /\ files' = write_file(files, data_file(proc[p].code), <<>>)
  /\ proc' = [proc EXCEPT ![p] =
                [proc[p] EXCEPT !.pc = "write_data", !.attached = TRUE,
                   !.expiry = now + timeout_seconds]]
  /\ UNCHANGED <<backend, now, redis, call, last, issued>>

\* store_data: await f.write(data), and the file is closed
WriteData(p) ==
  /\ proc[p].pc = "write_data"
  /\ LET path == data_file(proc[p].code) IN
     files' = IF proc[p].attached
              THEN write_file(files, path, write_at_start(files[path], proc[p].data))
              ELSE files
  /\ proc' = [proc EXCEPT ![p] =
                [proc[p] EXCEPT !.pc = "open_expiration_w", !.attached = FALSE,
                   !.text = <<>>]]
  /\ UNCHANGED <<backend, now, redis, call, last, issued>>

\* store_data: the expiration file is opened "w" (created, or emptied)
OpenExpirationW(p) ==
  /\ proc[p].pc = "open_expiration_w"
  /\ files' = write_file(files, expiration_file(proc[p].code), <<>>)
  /\ proc' = [proc EXCEPT ![p] =
                [proc[p] EXCEPT !.pc = "write_expiration", !.attached = TRUE]]
  /\ UNCHANGED <<backend, now, redis, call, last, issued>>

\* store_data: await f.write(expiration_time.isoformat()), the file is
\* closed, and the code is returned
WriteExpiration(p) ==
  /\ proc[p].pc = "write_expiration"
  /\ LET path == expiration_file(proc[p].code) IN
     files' = IF proc[p].attached
              THEN write_file(files, path,
                              write_at_start(files[path], isoformat(proc[p].expiry)))
              ELSE files
  /\ proc' = [proc EXCEPT ![p] =
                [Done(p, NoExc, TRUE, proc[p].code)
                   EXCEPT !.got = proc[p].code, !.put = proc[p].data]]
  /\ UNCHANGED <<backend, now, redis, call, last, issued>>

NextConc ==
  \/ Tick
  \/ \E p \in Procs, data \in ConcPayloads : CallStore(p, data)
  \/ \E p \in Procs, code \in Codes : CallRetrieve(p, code)
  \/ \E p \in Procs, code \in Codes : CallDelete(p, code)
  \/ \E p \in Procs : Generate(p)
  \/ \E p \in Procs : ExistsCheck(p)
  \/ \E p \in Procs : OpenExpiration(p)
  \/ \E p \in Procs : ReadExpiration(p)
  \/ \E p \in Procs : Compare(p)
  \/ \E p \in Procs : RemoveData(p)
  \/ \E p \in Procs : RemoveExpiration(p)
  \/ \E p \in Procs : OpenRead(p)
  \/ \E p \in Procs : ReadData(p)
  \/ \E p \in Procs : OpenData(p)
  \/ \E p \in Procs : WriteData(p)
  \/ \E p \in Procs : OpenExpirationW(p)
  \/ \E p \in Procs : WriteExpiration(p)

SpecConc == InitConc /\ [][NextConc]_vars

\* C4 (partial-write safety), as claimed: a retrieve or an existence check
\* that meets an expiry record that does not parse as a timestamp reports
\* absent: it does not raise and returns no payload.
C4_PartialWriteSafe ==
  \A p \in Procs :
    (proc[p].pc = "done" /\ proc[p].corrupt)
    => (proc[p].exc = NoExc /\ ~proc[p].found)

\* C11 (atomic-enough store), as claimed: a retrieve of a code that completes
\* while a store is writing that code (from the opening of the data record to
\* the writing of the expiry record) does not raise, and returns either None
\* or a complete payload, never an empty one.
C11_AtomicEnoughStore ==
  [][\A p, q \in Procs :
       ( /\ proc[p].op = "retrieve"
         /\ proc[p].pc # "done"
         /\ proc'[p].pc = "done"
         /\ proc[q].op = "store"
         /\ proc[q].code = proc[p].code
         /\ proc[q].pc \in {"write_data", "open_expiration_w", "write_expiration"} )
       => ( /\ proc'[p].exc = NoExc
            /\ proc'[p].found => proc'[p].out \in ConcPayloads )]_vars

\* C12 (best-effort purge), as claimed: when the existence check of a
\* retrieve or of a store purges an entry whose expiry has passed, neither of
\* the two removals makes the call raise, and the entry is reported absent.
C12_BestEffortPurge ==
  [][\A p \in Procs :
       ( /\ proc[p].op \in {"retrieve", "store"}
         /\ proc[p].pc \in {"remove_data", "remove_expiration"} )
       => ( /\ proc'[p].exc = NoExc
            /\ ~proc'[p].found )]_vars

---------------------------------------------------------------------------
(* The code generator on its own: one call of the generator of either     *)
(* file, over GenDraws.                                                   *)

InitGen ==
  /\ proc = [p \in Procs |-> IdleProc]
  /\ backend \in {"disk", "redis"}
  /\ now = 0
  /\ files = NoFiles
  /\ redis = NoKeys
  /\ call = [Idle EXCEPT !.pc = "generate"]
  /\ last = NoLast
  /\ issued = NoIssued

\* DiskStorageBackend._generate_human_readable_code
GenerateCode ==
  /\ backend = "disk"
  /\ call.pc = "generate"
  /\ \E d \in GenDraws :
       call' = [call EXCEPT !.pc = "generated",
                  !.code = generate_human_readable_code(d.letters, d.number)]
  /\ UNCHANGED <<proc, backend, now, files, redis, last, issued>>

\* generate_human_readable_code of server.py
HttpGenerateCode ==
  /\ backend = "redis"
  /\ call.pc = "generate"
  /\ \E d \in GenDraws :
       call' = [call EXCEPT !.pc = "generated",
                  !.code = generate_human_readable_code(d.letters, d.number)]
  /\ UNCHANGED <<proc, backend, now, files, redis, last, issued>>

NextGen ==
  \/ GenerateCode
  \/ HttpGenerateCode

SpecGen == InitGen /\ [][NextGen]_vars

\* the shape the claim gives: the characters allowed at position i (from 1)
ShapeAt(i) ==
  IF i \in {1, 3, 5}
  THEN {"b", "c", "d", "f", "g", "h", "j", "k", "l", "m", "n",
        "p", "q", "r", "s", "t", "v", "w", "x", "y", "z"}
  ELSE IF i \in {2, 4, 6}
  THEN {"a", "e", "i", "o", "u"}
  ELSE {"0", "1", "2", "3", "4", "5", "6", "7", "8", "9"}

HasShape(c) == Len(c) = 8 /\ \A i \in 1..8 : c[i] \in ShapeAt(i)

\* the indices at which abc holds ch
Indices(abc, ch) == {k \in 1..Len(abc) : abc[k] = ch}

\* some draw of the generator produces c (c of length 8)
CanProduce(c) ==
  \E k1 \in Indices(alphabet(1), c[1]), k2 \in Indices(alphabet(2), c[2]),
     k3 \in Indices(alphabet(3), c[3]), k4 \in Indices(alphabet(4), c[4]),
     k5 \in Indices(alphabet(5), c[5]), k6 \in Indices(alphabet(6), c[6]) :
    \E n \in {m \in randbelow(100) : str(m)[Len(str(m))] = c[8]} :
      generate_human_readable_code(<<k1, k2, k3, k4, k5, k6>>, n) = c

\* C13 (code shape): a generated code has 8 characters, consonants at
\* positions 0, 2, 4, vowels at 1, 3, 5 and two decimal digits at 6-7; and
\* every code of that shape that differs from it at one position can be
\* generated as well.
C13_CodeShape ==
  call.pc = "generated"
  => /\ HasShape(call.code)
     /\ \A i \in 1..8 : \A ch \in ShapeAt(i) :
          LET c == [call.code EXCEPT ![i] = ch]
          IN HasShape(c) /\ CanProduce(c)

\* a code with the last letter of each alphabet and a padded number was
\* generated by the server's generator
C13_Witness ==
  /\ backend = "redis"
  /\ call.pc = "generated"
  /\ call.code = <<"z", "u", "z", "u", "z", "u", "0", "9">>

\* C14 (lazy expiration at the existence check), as claimed: the existence
\* check a retrieve makes of an entry store handed out (and no delete removed)
\* removes both records and reports absent whenever expires_at <= now, the
\* instant expires_at = now included; whenever expires_at > now it reports
\* present and leaves both records as they were.
C14_LazyExpiration ==
  (last.op = "retrieve" /\ last.entry.state \in {"live", "expired"})
  => IF last.entry.state = "expired" \/ last.entry.expires_at <= last.at
     THEN /\ ~last.found
          /\ data_file(last.code) \notin DOMAIN files
          /\ expiration_file(last.code) \notin DOMAIN files
     ELSE /\ last.found
          /\ Intact(last.code)

\* the expiry record of code is present, parses and holds an instant in the
\* future, and its data record is missing
DataRecordMissing(code) ==
  /\ expiration_file(code) \in DOMAIN files
  /\ fromisoformat(strip(files[expiration_file(code)])).ok
  /\ fromisoformat(strip(files[expiration_file(code)])).value > now
  /\ data_file(code) \notin DOMAIN files

\* C15 (both records required), as claimed: a retrieve that has found the
\* expiry record of its code valid and in the future, and whose data record
\* is missing, returns None as for an unknown code: it does not raise and
\* returns no payload.
C15_BothRecordsRequired ==
  [][\A p \in Procs :
       ( /\ proc[p].op = "retrieve"
         /\ proc[p].pc = "open_read"
         /\ DataRecordMissing(proc[p].code)
         /\ proc'[p].pc = "done" )
       => ( /\ proc'[p].exc = NoExc
            /\ ~proc'[p].found
            /\ proc'[p].out = <<>> )]_vars

\* the two records of code
RecordsOf(code) == {data_file(code), expiration_file(code)}

\* the paths whose record is created, removed or rewritten by the step
Touched ==
  {path \in DOMAIN files \cup DOMAIN files' :
     \/ (path \in DOMAIN files) # (path \in DOMAIN files')
     \/ path \in DOMAIN files /\ path \in DOMAIN files'
          /\ files[path] # files'[path]}

\* a step changes the records of the code of a call that takes it, and no
\* other record
FrameOfStep ==
  \A path \in Touched :
    \E p \in Procs : proc'[p] # proc[p] /\ path \in RecordsOf(proc[p].code)

\* a store that ends either returns its code or has used up its attempts on
\* live entries: nothing else about the directory makes it fail
StoreOutcomeOfStep ==
  \A p \in Procs :
    (proc[p].op = "store" /\ proc[p].pc # "done" /\ proc'[p].pc = "done")
    => \/ proc'[p].exc = NoExc /\ proc'[p].found
       \/ proc'[p].exc = "Exception" /\ proc[p].attempt >= max_attempts

\* C16 (independence of different codes), as claimed: under any interleaving
\* a call changes no record of a code other than its own, and a store fails
\* only when every candidate was a live entry.
C16_Independence == [][FrameOfStep /\ StoreOutcomeOfStep]_vars

---------------------------------------------------------------------------
(* The handlers of server.py, their coroutines interleaved: one action per *)
(* await. up = FALSE is a Redis that cannot be reached.                    *)

\* the handler of p ends: what was raised inside its try block goes through
\* its except clauses
HttpDone(p, raised, found, out) ==
  Done(p, IF except_clauses(raised) = 200 THEN NoExc ELSE "HTTPException",
       found, out)

\* POST /store
CallPost(p, body) ==
  /\ backend = "redis"
  /\ Ready(p)
  /\ proc' = [proc EXCEPT ![p] = [IdleProc EXCEPT !.pc = "post_body",
                                    !.op = "POST", !.data = body,
                                    !.calls = proc[p].calls + 1,
                                    !.got = proc[p].got, !.put = proc[p].put]]
  /\ UNCHANGED <<backend, now, files, redis, call, last, issued>>

\* GET /retrieve/{code}
CallGet(p, code) ==
  /\ backend = "redis"
  /\ Ready(p)
  /\ proc' = [proc EXCEPT ![p] = [IdleProc EXCEPT !.pc = "get",
                                    !.op = "GET", !.code = code,
                                    !.calls = proc[p].calls + 1,
                                    !.got = proc[p].got, !.put = proc[p].put]]
  /\ UNCHANGED <<backend, now, files, redis, call, last, issued>>

\* store_data: data = await request.body(); if not data: raise
PostBody(p) ==
  /\ proc[p].pc = "post_body"
  /\ proc' = [proc EXCEPT ![p] =
                IF proc[p].data = <<>>
                THEN HttpDone(p, [kind |-> "HTTPException", status_code |-> 400],
                              FALSE, <<>>)
                ELSE [proc[p] EXCEPT !.pc = "post_generate"]]
  /\ UNCHANGED <<backend, now, files, redis, call, last, issued>>

\* ensure_unique_code: the next candidate, or the attempts are used up
PostGenerate(p) ==
  /\ proc[p].pc = "post_generate"
  /\ proc[p].attempt < MaxRetries
  /\ IF proc[p].attempt >= max_attempts
     THEN proc' = [proc EXCEPT ![p] =
                     HttpDone(p, [kind |-> "HTTPException", status_code |-> 500],
                              FALSE, <<>>)]
     ELSE \E d \in Draws :
            proc' = [proc EXCEPT ![p] =
                       [proc[p] EXCEPT !.pc = "post_exists",
                          !.code = generate_human_readable_code(d.letters, d.number),
                          !.attempt = proc[p].attempt + 1]]
  /\ UNCHANGED <<backend, now, files, redis, call, last, issued>>

\* ensure_unique_code: exists = await redis_client.exists(key)
PostExists(p) ==
  /\ proc[p].pc = "post_exists"
  /\ \E up \in BOOLEAN :
       proc' = [proc EXCEPT ![p] =
                  IF ~up
                  THEN HttpDone(p, [kind |-> "RedisError", status_code |-> 0],
                                FALSE, <<>>)
                  ELSE IF http_unique_code_step(redis, proc[p].code, now) = "return"
                  THEN [proc[p] EXCEPT !.pc = "post_setex"]
                  ELSE [proc[p] EXCEPT !.pc = "post_generate"]]
  /\ UNCHANGED <<backend, now, files, redis, call, last, issued>>

\* store_data: await redis_client.setex(key, TIMEOUT_SECONDS, data), and the
\* code is returned
PostSetex(p) ==
  /\ proc[p].pc = "post_setex"
  /\ \E up \in BOOLEAN :
       IF ~up
       THEN /\ redis' = redis
            /\ proc' = [proc EXCEPT ![p] =
                          HttpDone(p, [kind |-> "RedisError", status_code |-> 0],
                                   FALSE, <<>>)]
       ELSE /\ redis' = redis_setex(redis, redis_key(proc[p].code),
                                    TIMEOUT_SECONDS, proc[p].data, now)
            /\ proc' = [proc EXCEPT ![p] =
                          [HttpDone(p, NoRaise, TRUE, proc[p].code)
                             EXCEPT !.got = proc[p].code, !.put = proc[p].data]]
  /\ UNCHANGED <<backend, now, files, call, last, issued>>

\* retrieve_data: data = await redis_client.get(key); if data is None: raise
Get(p) ==
  /\ proc[p].pc = "get"
  /\ \E up \in BOOLEAN :
       LET g == redis_get(redis, redis_key(proc[p].code), now) IN
       proc' = [proc EXCEPT ![p] =
                  IF ~up
                  THEN HttpDone(p, [kind |-> "RedisError", status_code |-> 0],
                                FALSE, <<>>)
                  ELSE IF ~g.found
                  THEN HttpDone(p, [kind |-> "HTTPException", status_code |-> 404],
                                FALSE, <<>>)
                  ELSE HttpDone(p, NoRaise, TRUE, g.value)]
  /\ UNCHANGED <<backend, now, files, redis, call, last, issued>>

NextHttpConc ==
  \/ \E p \in Procs, body \in Payloads : CallPost(p, body)
  \/ \E p \in Procs, code \in Codes : CallGet(p, code)
  \/ \E p \in Procs : PostBody(p)
  \/ \E p \in Procs : PostGenerate(p)
  \/ \E p \in Procs : PostExists(p)
  \/ \E p \in Procs : PostSetex(p)
  \/ \E p \in Procs : Get(p)

\* either storage, its store and retrieve calls interleaved
InitRace ==
  /\ proc = [p \in Procs |-> IdleProc]
  /\ backend \in {"disk", "redis"}
  /\ now = 0
  /\ files = NoFiles
  /\ redis = NoKeys
  /\ call = Idle
  /\ last = NoLast
  /\ issued = NoIssued

\* store and retrieve calls of either storage within one reading of the
\* clock: the awaits of store_data and retrieve_data of DiskStorageBackend,
\* and the handlers
NextRace ==
  \/ \E p \in Procs, data \in ConcPayloads : CallStore(p, data)
  \/ \E p \in Procs, code \in Codes : CallRetrieve(p, code)
  \/ \E p \in Procs : Generate(p)
  \/ \E p \in Procs : ExistsCheck(p)
  \/ \E p \in Procs : OpenExpiration(p)
  \/ \E p \in Procs : ReadExpiration(p)
  \/ \E p \in Procs : Compare(p)
  \/ \E p \in Procs : OpenRead(p)
  \/ \E p \in Procs : ReadData(p)
  \/ \E p \in Procs : OpenData(p)
  \/ \E p \in Procs : WriteData(p)
  \/ \E p \in Procs : OpenExpirationW(p)
  \/ \E p \in Procs : WriteExpiration(p)
  \/ NextHttpConc

SpecRace == InitRace /\ [][NextRace]_vars

\* the payload stored under code (empty when there is none)
Stored(fs, db, code) ==
  IF backend = "disk"
  THEN IF data_file(code) \in DOMAIN fs THEN fs[data_file(code)] ELSE <<>>
  ELSE IF redis_key(code) \in DOMAIN db THEN db[redis_key(code)].value ELSE <<>>

\* q writes its payload in the step: f.write(data) on the data record it
\* holds open, or SETEX
WritesPayload(q) ==
  \/ proc[q].pc = "write_data" /\ proc[q].attached
       /\ proc'[q].pc = "open_expiration_w"
  \/ proc[q].pc = "post_setex" /\ proc'[q].pc = "done" /\ proc'[q].exc = NoExc

\* the retrieve of p returns a payload in the step: f.read() on the data
\* record it holds open, or GET
ReturnsPayload(p) ==
  \/ proc[p].pc = "read_data" /\ proc[p].attached /\ proc'[p].pc = "done"
  \/ proc[p].pc = "get" /\ proc'[p].pc = "done" /\ proc'[p].found

\* C17 (check-then-act race), last writer wins: when a store writes the
\* payload of a code that a store of another caller has already returned,
\* the entry then holds the payload of the later writer (in Redis exactly; on
\* disk the data record begins with it), and the retrieve the first caller
\* makes of its code returns what the entry holds at that moment, not what
\* that caller stored.
C17_LastWriterWins ==
  [][\A p, q \in Procs :
       /\ ( /\ p # q
            /\ proc[p].got # <<>>
            /\ proc[p].got = proc[q].code
            /\ WritesPayload(q) )
          => LET stored == Stored(files', redis', proc[q].code)
             IN IF backend = "disk"
                THEN SubSeq(stored, 1, Len(proc[q].data)) = proc[q].data
                ELSE stored = proc[q].data
       /\ ( /\ proc[p].got = proc[p].code
            /\ ReturnsPayload(p) )
          => proc'[p].out = Stored(files, redis, proc[p].code)]_vars

\* the race has happened between the callers p and q on code: both stores
\* returned it with different payloads, the clock has not advanced and
\* nothing was deleted (p has made two calls, q one), and the retrieve p then
\* made of it returned the payload of q
RaceOutcome(p, q, code, store, retrieve) ==
  /\ p # q
  /\ now = 0
  /\ code # <<>>
  /\ proc[q].pc = "done" /\ proc[q].op = store
  /\ proc[q].exc = NoExc /\ proc[q].out = code
  /\ proc[q].got = code /\ proc[q].calls = 1
  /\ proc[p].got = code /\ proc[p].calls = 2
  /\ proc[p].put # proc[q].put
  /\ proc[p].pc = "done" /\ proc[p].op = retrieve /\ proc[p].code = code
  /\ proc[p].exc = NoExc /\ proc[p].found
  /\ proc[p].out = proc[q].put
  /\ Stored(files, redis, code) = proc[q].put

\* the race on the filesystem path
C17_RaceOnDisk ==
  /\ backend = "disk"
  /\ \E p, q \in Procs, code \in Codes :
       RaceOutcome(p, q, code, "store", "retrieve")

\* the race on the Redis path
C17_RaceInRedis ==
  /\ backend = "redis"
  /\ \E p, q \in Procs, code \in Codes :
       RaceOutcome(p, q, code, "POST", "GET")

\* code has both its records, or neither
Paired(code) ==
  (data_file(code) \in DOMAIN files) <=> (expiration_file(code) \in DOMAIN files)

\* C18 (pairing invariant, calls one at a time): starting from an empty
\* directory, after any sequence of store, retrieve and delete calls and clock
\* advances, every code has both its data record and its expiry record or
\* neither, also after a call that raised.
C18_PairedRecords ==
  backend = "disk" => \A code \in Codes : Paired(code)

\* a delete has just raised, one code has both records and the entry of
\* another, expired, has been purged
C18_Witness ==
  /\ backend = "disk"
  /\ last.op = "delete"
  /\ last.exc # NoExc
  /\ \E c \in Codes : data_file(c) \in DOMAIN files
                        /\ expiration_file(c) \in DOMAIN files
  /\ \E c \in DOMAIN issued : issued[c].state = "expired"
                                /\ data_file(c) \notin DOMAIN files
                                /\ expiration_file(c) \notin DOMAIN files

\* no call is in progress
Quiescent == \A p \in Procs : proc[p].pc \in {"idle", "done"}

\* C19 (no orphan records under concurrency), as claimed: under any
\* interleaving of store, retrieve and delete calls on the filesystem
\* backend, once every call has completed each code has both its records or
\* neither.
C19_NoOrphanRecords ==
  Quiescent => \A code \in Codes : Paired(code)

====
